---- MODULE Spec2Model ----
(***************************************************************************)
(* Model of backend/api_routes.py: the chat, ticket, get-session and       *)
(* clear-session handlers over the process-wide session_storage dict.      *)
(*                                                                         *)
(* The handlers are coroutines on one event loop: the code between two     *)
(* awaits runs atomically, and other requests run while a handler is       *)
(* suspended in an await.  Each action below is one such atomic stretch.   *)
(*                                                                         *)
(* Python lists are objects: session_storage.get(session_id, []) returns   *)
(* the stored list itself when the key is present, and a new list when it  *)
(* is absent.  heap[ref] is the content of list object ref, and            *)
(* session_storage maps a session id to a list reference (NoList when the  *)
(* key is absent).                                                         *)
(***************************************************************************)
EXTENDS Integers, Sequences, FiniteSets, TLC

VARIABLES session_storage, heap, calls, last

vars == <<session_storage, heap, calls, last>>

(***************************************************************************)
(* Bounds and input sets.                                                  *)
(***************************************************************************)
\* requests with a suspension point (chat, ticket) a run may start
MaxCalls == 3

Sessions == {"s1", "s2"}

Messages == {"m1", "m2"}

OneMessage == {"m1"}

NoList == 0

EmptyDict == [k \in {} |-> ""]

NoneValue == "<None>"

\* request.user_info: None, an empty mapping, or a mapping naming the employee
NoUserInfo == [given |-> FALSE, map |-> EmptyDict]

UserInfos ==
  { NoUserInfo,
    [given |-> TRUE, map |-> EmptyDict],
    [given |-> TRUE, map |-> [employee_name |-> "Alice"]] }

\* what extract_user_info_from_history may return
Extracted == [employee_name |-> "Bob", problem_description |-> "vpn"]

ExtractorOutputs == { Extracted, EmptyDict }

\* what compiled_graph.ainvoke may return
TextResult == [response |-> "r1"]

EngineResults == { TextResult, EmptyDict, [response |-> NoneValue] }

IssueTypes == {"hardware", "software"}

DefaultEmployee ==
  [employee_name |-> "Employee_4", SL_competency |-> "VSI H - AI",
   floor_information |-> "2", employee_id |-> "E004"]

FallbackResponse == "I'm sorry, I couldn't process your request."

(***************************************************************************)
(* Python primitives.                                                      *)
(***************************************************************************)
\* dict.update(other): other's value wins on every key of other
DictUpdate(d, other) ==
  [k \in (DOMAIN d) \cup (DOMAIN other) |->
     IF k \in DOMAIN other THEN other[k] ELSE d[k]]

\* dict.get(key, default)
DictGet(d, key, default) == IF key \in DOMAIN d THEN d[key] ELSE default

\* truth value of request.user_info: None and the empty dict are both falsy
Truthy(ui) == ui.given /\ DOMAIN ui.map # {}

\* session_id in session_storage
Present(sid) == session_storage[sid] # NoList

\* the turn sequence stored for sid
History(sid) == IF Present(sid) THEN heap[session_storage[sid]] ELSE <<>>

\* session_storage.setdefault(session_id, []): an absent key gets an entry
LookupSetDefault(sid) ==
  LET ref == IF Present(sid) THEN session_storage[sid] ELSE Len(heap) + 1
  IN [ref |-> ref,
      heap |-> IF Present(sid) THEN heap ELSE Append(heap, <<>>),
      storage |-> [session_storage EXCEPT ![sid] = ref]]

\* list(session_storage.get(session_id, [])): a copy, never the stored list
LookupCopy(sid) ==
  [ref |-> Len(heap) + 1,
   heap |-> Append(heap, History(sid)),
   storage |-> session_storage]

\* session_storage.get(session_id, []): the stored list object itself when the
\* key is present, a new empty list otherwise; the dict is not touched
Lookup(sid) ==
  [ref |-> IF Present(sid) THEN session_storage[sid] ELSE Len(heap) + 1,
   heap |-> IF Present(sid) THEN heap ELSE Append(heap, <<>>),
   storage |-> session_storage]

\* the list rebuilt from the one turn instead of appended to
ListAssign(h, ref, turn) == [h EXCEPT ![ref] = <<turn>>]

\* list.append(turn) on list object ref
ListAppend(h, ref, turn) == [h EXCEPT ![ref] = Append(@, turn)]

\* a turn; `call' tags the request that appended it (not part of the payload)
UserTurn(r, msg) == [role |-> "user", content |-> msg, call |-> r]

AssistantTurn(r, text) == [role |-> "assistant", content |-> text, call |-> r]

(***************************************************************************)
(* Request records.  hist is the local conversation_history (a reference), *)
(* base is len(conversation_history) as read on line 35.  entry, saw and   *)
(* preclear are history variables: the list the dict held for the session  *)
(* when the request read it (NoList: the key was absent), the chat calls   *)
(* on the same session suspended at that moment, and what the list held    *)
(* when a clear dropped it.                                                *)
(***************************************************************************)
NewCall(kind, sid, msg) ==
  [kind |-> kind, sid |-> sid, msg |-> msg, pc |-> "done",
   user_info |-> NoUserInfo, extracted |-> EmptyDict, context |-> EmptyDict,
   hist |-> NoList, base |-> 0, entry |-> NoList, saw |-> {},
   delegations |-> 0, status |-> 0, fail |-> "", response |-> "",
   issue_type |-> "", preclear |-> <<>>]

\* a finished request keeps its inputs and outcome; its locals are gone
Finish(c, status, fail, response) ==
  [c EXCEPT !.pc = "done", !.status = status, !.fail = fail,
            !.response = response, !.user_info = NoUserInfo,
            !.extracted = EmptyDict, !.context = EmptyDict,
            !.issue_type = ""]

\* the reply of get-session or clear-session; any other step resets it
Response(op, sid, history, text, removed) ==
  [op |-> op, sid |-> sid, status |-> IF op = "none" THEN 0 ELSE 200,
   history |-> history, count |-> Len(history), text |-> text,
   removed |-> removed]

NoResponse == Response("none", "", <<>>, <<>>, FALSE)

InFlight(r) == calls[r].pc # "done"

\* the chat calls on sid suspended in the workflow engine
Suspended(sid) ==
  {r \in 1..Len(calls) : calls[r].pc = "await_engine" /\ calls[r].sid = sid}

Init ==
  /\ session_storage = [s \in Sessions |-> NoList]
  /\ heap = <<>>
  /\ calls = <<>>
  /\ last = NoResponse

(***************************************************************************)
(* chat_endpoint                                                           *)
(***************************************************************************)
\* lines 44-54: the context handed to the workflow engine
MergeContext(extracted, ui) ==
  IF Truthy(ui) THEN DictUpdate(extracted, ui.map)
  ELSE DictUpdate(extracted, DefaultEmployee)

\* lines 29-66: up to the suspension in compiled_graph.ainvoke
ChatBegin(sid, msg, ui, ex) ==
  /\ Len(calls) < MaxCalls
  /\ LET r == Len(calls) + 1
         lk == Lookup(sid)
         c == [NewCall("chat", sid, msg) EXCEPT
                 !.pc = "await_engine", !.user_info = ui, !.extracted = ex,
                 !.context = MergeContext(ex, ui), !.hist = lk.ref,
                 !.base = Len(lk.heap[lk.ref]), !.entry = session_storage[sid],
                 !.saw = Suspended(sid), !.delegations = 1]
     IN /\ heap' = ListAppend(lk.heap, lk.ref, UserTurn(r, msg))
        /\ session_storage' = lk.storage
        /\ calls' = Append(calls, c)
        /\ last' = NoResponse

\* lines 29-41, 88-90: the extractor raises after the user turn was appended
ChatExtractorRaises(sid, msg) ==
  /\ Len(calls) < MaxCalls
  /\ LET r == Len(calls) + 1
         lk == Lookup(sid)
         c == [NewCall("chat", sid, msg) EXCEPT
                 !.hist = lk.ref, !.base = Len(lk.heap[lk.ref]),
                 !.entry = session_storage[sid], !.saw = Suspended(sid)]
     IN /\ heap' = ListAppend(lk.heap, lk.ref, UserTurn(r, msg))
        /\ session_storage' = lk.storage
        /\ calls' = Append(calls, Finish(c, 500, "extractor", ""))
        /\ last' = NoResponse

\* line 77: session_storage[session_id] = conversation_history
Persist(sid, ref) == [session_storage EXCEPT ![sid] = ref]

\* lines 66-86: the engine returned and the response text is a string
ChatEngineReturns(r, result) ==
  /\ r \in 1..Len(calls)
  /\ calls[r].pc = "await_engine"
  /\ LET c == calls[r]
         response_text == DictGet(result, "response", FallbackResponse)
     IN /\ response_text # NoneValue
        /\ heap' = ListAppend(heap, c.hist, AssistantTurn(r, response_text))
        /\ session_storage' = Persist(c.sid, c.hist)
        /\ calls' = [calls EXCEPT ![r] = Finish(c, 200, "", response_text)]
        /\ last' = NoResponse

\* lines 66-79, 88-90: the engine returned "response": None; the turn is
\* appended and stored, then response_text[:100] raises
ChatResponseNotText(r, result) ==
  /\ r \in 1..Len(calls)
  /\ calls[r].pc = "await_engine"
  /\ LET c == calls[r]
         response_text == DictGet(result, "response", FallbackResponse)
     IN /\ response_text = NoneValue
        /\ heap' = ListAppend(heap, c.hist, AssistantTurn(r, response_text))
        /\ session_storage' = Persist(c.sid, c.hist)
        /\ calls' = [calls EXCEPT ![r] = Finish(c, 500, "response", "")]
        /\ last' = NoResponse

\* an except branch that takes its user turn back out of the list
ChatEngineRaisesRollback(r) ==
  /\ r \in 1..Len(calls)
  /\ calls[r].pc = "await_engine"
  /\ heap' = [heap EXCEPT ![calls[r].hist] =
                SelectSeq(@, LAMBDA t : t # UserTurn(r, calls[r].msg))]
  /\ calls' = [calls EXCEPT ![r] = Finish(calls[r], 500, "engine", "")]
  /\ last' = NoResponse
  /\ UNCHANGED session_storage

\* lines 66, 88-90: compiled_graph.ainvoke raises
ChatEngineRaises(r) ==
  /\ r \in 1..Len(calls)
  /\ calls[r].pc = "await_engine"
  /\ calls' = [calls EXCEPT ![r] = Finish(calls[r], 500, "engine", "")]
  /\ last' = NoResponse
  /\ UNCHANGED <<session_storage, heap>>

(***************************************************************************)
(* ticket_endpoint                                                         *)
(***************************************************************************)
\* the classifier and the filler both started before the first await
TicketBeginFanOut(sid, msg, ex) ==
  /\ Len(calls) < MaxCalls
  /\ LET lk == Lookup(sid)
         c == [NewCall("ticket", sid, msg) EXCEPT
                 !.pc = "await_classify", !.extracted = ex, !.context = ex,
                 !.hist = lk.ref, !.base = Len(lk.heap[lk.ref]),
                 !.entry = session_storage[sid], !.delegations = 2]
     IN /\ heap' = lk.heap
        /\ session_storage' = lk.storage
        /\ calls' = Append(calls, c)
        /\ last' = NoResponse

\* the ticket path appending its message to the history as chat does
TicketBeginAppends(sid, msg, ex) ==
  /\ Len(calls) < MaxCalls
  /\ LET r == Len(calls) + 1
         lk == Lookup(sid)
         c == [NewCall("ticket", sid, msg) EXCEPT
                 !.pc = "await_classify", !.extracted = ex, !.context = ex,
                 !.hist = lk.ref, !.base = Len(lk.heap[lk.ref]),
                 !.entry = session_storage[sid], !.delegations = 1]
     IN /\ heap' = ListAppend(lk.heap, lk.ref, UserTurn(r, msg))
        /\ session_storage' = lk.storage
        /\ calls' = Append(calls, c)
        /\ last' = NoResponse

\* lines 95-105: up to the suspension in classify_issue_type_llm
TicketBegin(sid, msg, ex) ==
  /\ Len(calls) < MaxCalls
  /\ LET lk == Lookup(sid)
         c == [NewCall("ticket", sid, msg) EXCEPT
                 !.pc = "await_classify", !.extracted = ex, !.context = ex,
                 !.hist = lk.ref, !.base = Len(lk.heap[lk.ref]),
                 !.entry = session_storage[sid], !.delegations = 1]
     IN /\ heap' = lk.heap
        /\ session_storage' = lk.storage
        /\ calls' = Append(calls, c)
        /\ last' = NoResponse

\* lines 95-102, 131-133: the extractor raises
TicketExtractorRaises(sid, msg) ==
  /\ Len(calls) < MaxCalls
  /\ LET lk == Lookup(sid)
         c == [NewCall("ticket", sid, msg) EXCEPT
                 !.hist = lk.ref, !.base = Len(lk.heap[lk.ref]),
                 !.entry = session_storage[sid]]
     IN /\ heap' = lk.heap
        /\ session_storage' = lk.storage
        /\ calls' = Append(calls, Finish(c, 500, "extractor", ""))
        /\ last' = NoResponse

\* lines 105-112: the classifier returned; up to the suspension in the filler
TicketClassified(r, it) ==
  /\ r \in 1..Len(calls)
  /\ calls[r].pc = "await_classify"
  /\ calls' = [calls EXCEPT ![r].pc = "await_fill", ![r].issue_type = it,
                            ![r].delegations = @ + 1]
  /\ last' = NoResponse
  /\ UNCHANGED <<session_storage, heap>>

\* lines 105-109, 131-133: the classifier or the template loading raises
TicketClassifierRaises(r) ==
  /\ r \in 1..Len(calls)
  /\ calls[r].pc = "await_classify"
  /\ calls' = [calls EXCEPT ![r] = Finish(calls[r], 500, "classifier", "")]
  /\ last' = NoResponse
  /\ UNCHANGED <<session_storage, heap>>

\* lines 110-129: the filler returned; the ticket is built and returned
TicketFilled(r) ==
  /\ r \in 1..Len(calls)
  /\ calls[r].pc = "await_fill"
  /\ calls' = [calls EXCEPT ![r] = Finish(calls[r], 200, "", calls[r].issue_type)]
  /\ last' = NoResponse
  /\ UNCHANGED <<session_storage, heap>>

\* lines 110-121, 131-133: the filler, the ordering or the artifact raises
TicketFillerRaises(r) ==
  /\ r \in 1..Len(calls)
  /\ calls[r].pc = "await_fill"
  /\ calls' = [calls EXCEPT ![r] = Finish(calls[r], 500, "filler", "")]
  /\ last' = NoResponse
  /\ UNCHANGED <<session_storage, heap>>

(***************************************************************************)
(* session_endpoint, clear_session_endpoint                                *)
(***************************************************************************)
\* lines 138-143.  The default list of an absent session dies with the reply.
session_endpoint(sid) ==
  LET lk == Lookup(sid)
  IN /\ last' = Response("get", sid, lk.heap[lk.ref], <<>>, FALSE)
     /\ session_storage' = lk.storage
     /\ heap' = IF lk.storage[sid] = NoList THEN heap ELSE lk.heap
     /\ UNCHANGED calls

\* the confirmation text of line 153
ClearedMessage(sid) == <<"Session", sid, "cleared successfully">>

\* session_storage.clear(): every key dropped
ClearedAll(sid) == [s \in Sessions |-> NoList]

\* lines 151-152: if session_id in session_storage: del session_storage[...]
Cleared(sid) == [session_storage EXCEPT ![sid] = NoList]

\* session_storage[session_id].clear() before the del: the list emptied
HeapWiped(sid) ==
  IF Present(sid) THEN [heap EXCEPT ![session_storage[sid]] = <<>>] ELSE heap

\* del drops the dict's reference; the list object is not touched
HeapAfterClear(sid) == heap

\* lines 151-153
clear_session_endpoint(sid) ==
  /\ session_storage' = Cleared(sid)
  /\ heap' = HeapAfterClear(sid)
  /\ calls' = [r \in 1..Len(calls) |->
                 IF r \in Suspended(sid) /\ calls[r].hist = session_storage[sid]
                 THEN [calls[r] EXCEPT !.preclear = heap[session_storage[sid]]]
                 ELSE calls[r]]
  /\ last' = Response("clear", sid, <<>>, ClearedMessage(sid), Present(sid))

(***************************************************************************)
(* Spec: any interleaving of the four handlers' atomic stretches.          *)
(***************************************************************************)
Next ==
  \/ \E sid \in Sessions, msg \in OneMessage : ChatBegin(sid, msg, NoUserInfo, Extracted)
  \/ \E sid \in Sessions, msg \in OneMessage : ChatExtractorRaises(sid, msg)
  \/ \E r \in 1..MaxCalls : ChatEngineReturns(r, TextResult)
  \/ \E r \in 1..MaxCalls, result \in EngineResults : ChatResponseNotText(r, result)
  \/ \E r \in 1..MaxCalls : ChatEngineRaises(r)
  \/ \E sid \in Sessions, msg \in OneMessage : TicketBegin(sid, msg, Extracted)
  \/ \E sid \in Sessions, msg \in OneMessage : TicketExtractorRaises(sid, msg)
  \/ \E r \in 1..MaxCalls, it \in IssueTypes : TicketClassified(r, it)
  \/ \E r \in 1..MaxCalls : TicketClassifierRaises(r)
  \/ \E r \in 1..MaxCalls : TicketFilled(r)
  \/ \E r \in 1..MaxCalls : TicketFillerRaises(r)
  \/ \E sid \in Sessions : session_endpoint(sid)
  \/ \E sid \in Sessions : clear_session_endpoint(sid)

Spec == Init /\ [][Next]_vars

(***************************************************************************)
(* SpecChat: chat calls racing with each other and with get and clear,     *)
(* the engine returning a text response or raising.                        *)
(***************************************************************************)
NextChat ==
  \/ \E sid \in Sessions, msg \in OneMessage : ChatBegin(sid, msg, NoUserInfo, Extracted)
  \/ \E sid \in Sessions, msg \in OneMessage : ChatExtractorRaises(sid, msg)
  \/ \E r \in 1..MaxCalls : ChatEngineReturns(r, TextResult)
  \/ \E r \in 1..MaxCalls : ChatEngineRaises(r)
  \/ \E sid \in Sessions : session_endpoint(sid)
  \/ \E sid \in Sessions : clear_session_endpoint(sid)

SpecChat == Init /\ [][NextChat]_vars

(***************************************************************************)
(* SpecTicket: ticket calls racing with chat calls.                        *)
(***************************************************************************)
NextTicket ==
  \/ \E sid \in Sessions, msg \in OneMessage : ChatBegin(sid, msg, NoUserInfo, Extracted)
  \/ \E r \in 1..MaxCalls : ChatEngineReturns(r, TextResult)
  \/ \E r \in 1..MaxCalls : ChatEngineRaises(r)
  \/ \E sid \in Sessions, msg \in OneMessage : TicketBegin(sid, msg, Extracted)
  \/ \E sid \in Sessions, msg \in OneMessage : TicketExtractorRaises(sid, msg)
  \/ \E r \in 1..MaxCalls, it \in IssueTypes : TicketClassified(r, it)
  \/ \E r \in 1..MaxCalls : TicketClassifierRaises(r)
  \/ \E r \in 1..MaxCalls : TicketFilled(r)
  \/ \E r \in 1..MaxCalls : TicketFillerRaises(r)

SpecTicket == Init /\ [][NextTicket]_vars

(***************************************************************************)
(* SpecSeq: chat calls that all succeed and never overlap on one session,  *)
(* with no clear.                                                          *)
(***************************************************************************)
NextSeq ==
  \/ \E sid \in Sessions, msg \in Messages :
       Suspended(sid) = {} /\ ChatBegin(sid, msg, NoUserInfo, Extracted)
  \/ \E r \in 1..MaxCalls, result \in {TextResult, EmptyDict} :
       ChatEngineReturns(r, result)
  \/ \E sid \in Sessions : session_endpoint(sid)

SpecSeq == Init /\ [][NextSeq]_vars

(***************************************************************************)
(* SpecContext: chat calls over every user_info and extractor output.      *)
(***************************************************************************)
NextContext ==
  \/ \E sid \in Sessions, msg \in OneMessage, ui \in UserInfos, ex \in ExtractorOutputs :
       ChatBegin(sid, msg, ui, ex)
  \/ \E r \in 1..MaxCalls : ChatEngineReturns(r, TextResult)
  \/ \E r \in 1..MaxCalls : ChatEngineRaises(r)

SpecContext == Init /\ [][NextContext]_vars

(***************************************************************************)
(* Properties.                                                             *)
(***************************************************************************)
IsPrefix(p, s) == Len(p) <= Len(s) /\ SubSeq(s, 1, Len(p)) = p

InSeq(t, s) == \E i \in 1..Len(s) : s[i] = t

ChatCallsOn(sid) ==
  {r \in 1..Len(calls) : calls[r].kind = "chat" /\ calls[r].sid = sid}

\* the k-th chat call made on sid
KthCall(sid, k) ==
  CHOOSE r \in ChatCallsOn(sid) :
    Cardinality({q \in ChatCallsOn(sid) : q <= r}) = k

\* this step is chat call r returning its reply (lines 74-86)
ChatWrites(r) ==
  /\ r \in 1..Len(calls)
  /\ calls[r].pc = "await_engine"
  /\ calls'[r].pc = "done"
  /\ calls'[r].status = 200

\* this step belongs to a ticket call
TicketStep ==
  \E r \in 1..Len(calls') :
    /\ calls'[r].kind = "ticket"
    /\ (r > Len(calls) \/ calls'[r] # calls[r])

\* C1: after N sequential successful chat calls on a session that started
\* with no entry, and no clear, the stored history has length 2N; element
\* 2k-1 is the user turn with the k-th call's message and element 2k the
\* assistant turn with the response text the k-th call returned.
C1_SequentialChatsBuildHistory ==
  \A sid \in Sessions :
    Suspended(sid) = {} =>
      LET n == Cardinality(ChatCallsOn(sid))
          h == History(sid)
      IN /\ Len(h) = 2 * n
         /\ \A k \in 1..n :
              LET r == KthCall(sid, k)
              IN /\ h[2 * k - 1] = UserTurn(r, calls[r].msg)
                 /\ h[2 * k] = AssistantTurn(r, calls[r].response)

C1_Witness ==
  \E sid \in Sessions :
    /\ Suspended(sid) = {}
    /\ Cardinality(ChatCallsOn(sid)) = 3
    /\ Len(History(sid)) = 6
    /\ History(sid)[1].content # History(sid)[3].content
    /\ History(sid)[2].content = FallbackResponse
    /\ History(sid)[4].content = "r1"

\* C2: no step of a ticket call, on a present or absent session, succeeding
\* or failing, changes the session store: every key keeps its list, every
\* stored history its content, and no entry is created.
C2_TicketLeavesStoreAlone ==
  [][TicketStep =>
       /\ session_storage' = session_storage
       /\ \A sid \in Sessions : History(sid)' = History(sid)]_vars

C2_Witness ==
  \E r, q \in 1..Len(calls) :
    /\ calls[r].kind = "ticket" /\ calls[r].status = 200
    /\ calls[r].entry # NoList
    /\ calls[q].kind = "ticket" /\ calls[q].status = 500
    /\ calls[q].entry = NoList /\ ~Present(calls[q].sid)

\* the two chat calls a and b both read the session before either wrote,
\* a has written, and this step is b writing
OverlappingWrites(a, b) ==
  /\ ChatWrites(b)
  /\ a \in 1..Len(calls)
  /\ calls[a].kind = "chat" /\ calls[a].pc = "done" /\ calls[a].status = 200
  /\ calls[a].sid = calls[b].sid
  /\ (a \in calls[b].saw \/ b \in calls[a].saw)

HasTurnsOf(r, h) ==
  /\ InSeq(UserTurn(r, calls'[r].msg), h)
  /\ InSeq(AssistantTurn(r, calls'[r].response), h)

HasNoTurnOf(r, h) == \A i \in 1..Len(h) : h[i].call # r

\* C3 as claimed: whenever two chat calls on a session overlap, after the
\* later write the stored history holds the later writer's two turns and
\* neither turn of the earlier writer, whatever the session held before.
C3_LaterWriteAlwaysDiscards ==
  [][\A a, b \in 1..MaxCalls :
       OverlappingWrites(a, b) =>
         /\ HasTurnsOf(b, History(calls[b].sid)')
         /\ HasNoTurnOf(a, History(calls[b].sid)')]_vars

\* C3 amended: after the later write the stored history holds the later
\* writer's two turns.  The earlier writer's turns are discarded when the
\* two calls hold different list objects, which is the case whenever the
\* session had no entry when each read it (the history is then exactly the
\* later writer's two turns); when both read the same stored entry they
\* share its list and the history holds all four turns.
C3_LaterWriteDiscardsUnlessShared ==
  [][\A a, b \in 1..MaxCalls :
       OverlappingWrites(a, b) =>
         LET h == History(calls[b].sid)'
         IN /\ HasTurnsOf(b, h)
            /\ (calls[a].hist # calls[b].hist => HasNoTurnOf(a, h))
            /\ (calls[a].entry = NoList /\ calls[b].entry = NoList =>
                  h = <<UserTurn(b, calls[b].msg),
                        AssistantTurn(b, calls'[b].response)>>)
            /\ (calls[a].entry # NoList /\ calls[a].entry = calls[b].entry =>
                  HasTurnsOf(a, h))]_vars

C3_Witness ==
  \E a, b \in 1..Len(calls) :
    /\ a # b
    /\ calls[a].kind = "chat" /\ calls[a].status = 200
    /\ calls[b].kind = "chat" /\ calls[b].status = 200
    /\ calls[a].sid = calls[b].sid
    /\ a \in calls[b].saw
    /\ calls[a].entry = NoList /\ calls[b].entry = NoList
    /\ History(calls[b].sid) =
         <<UserTurn(b, calls[b].msg), AssistantTurn(b, calls[b].response)>>

\* C4: every step other than a clear leaves each stored history a prefix of
\* what it becomes.
C4_AppendOnlyExceptClear ==
  [][last'.op # "clear" =>
       \A sid \in Sessions : IsPrefix(History(sid), History(sid)')]_vars

\* C5 as claimed: no request performs more than one awaited delegation.
C5_AtMostOneDelegation ==
  \A r \in 1..Len(calls) : calls[r].delegations <= 1

\* C5 amended: a chat request performs at most one awaited delegation (the
\* workflow engine); a ticket request performs at most two, the classifier
\* and then the filler, the second only once the first has completed.
C5_DelegationsOneAtATime ==
  \A r \in 1..Len(calls) :
    /\ calls[r].kind = "chat" => calls[r].delegations <= 1
    /\ calls[r].kind = "ticket" => calls[r].delegations <= 2
    /\ calls[r].pc = "await_classify" => calls[r].delegations = 1
    /\ calls[r].pc = "await_fill" => calls[r].delegations = 2
    /\ calls[r].pc = "await_engine" => calls[r].delegations = 1

C5_Witness ==
  \E r, q \in 1..Len(calls) :
    /\ calls[r].kind = "ticket" /\ calls[r].status = 200
    /\ calls[r].delegations = 2
    /\ calls[q].kind = "chat" /\ calls[q].status = 200
    /\ calls[q].delegations = 1

\* C6: the context handed to the workflow engine is the extractor's output
\* overlaid with user_info whenever the caller supplied one, and with the
\* default identity only when the caller supplied none.
C6_OverlayWheneverSupplied ==
  \A r \in 1..Len(calls) :
    calls[r].pc = "await_engine" =>
      calls[r].context =
        IF calls[r].user_info.given
        THEN DictUpdate(calls[r].extracted, calls[r].user_info.map)
        ELSE DictUpdate(calls[r].extracted, DefaultEmployee)

\* C7: clear-session replies 200 with the confirmation text; the session's
\* entry is gone afterwards (removed if present, the store untouched if
\* absent), every other session keeps its entry and history, and a
\* get-session on that identifier taken as the very next step returns an
\* empty history and count 0.
C7_ClearAlwaysSucceeds ==
  [][/\ last'.op = "clear" =>
          /\ last'.status = 200
          /\ last'.text = ClearedMessage(last'.sid)
          /\ session_storage'[last'.sid] = NoList
          /\ (~Present(last'.sid) => session_storage' = session_storage)
          /\ heap' = heap
          /\ \A o \in Sessions \ {last'.sid} :
               session_storage'[o] = session_storage[o]
     /\ (last.op = "clear" /\ last'.op = "get" /\ last'.sid = last.sid) =>
          /\ last'.status = 200
          /\ last'.history = <<>>
          /\ last'.count = 0]_vars

C7_Witness ==
  /\ last.op = "clear"
  /\ last.removed
  /\ \E o \in Sessions \ {last.sid} : Present(o)

\* C8: get-session replies 200 with the identifier, the stored turn
\* sequence (empty when the key is absent) and its length, and leaves the
\* store as it was: no entry is created.
C8_GetIsReadOnly ==
  [][last'.op = "get" =>
       /\ last'.status = 200
       /\ last'.sid \in Sessions
       /\ last'.history = History(last'.sid)
       /\ last'.count = Len(last'.history)
       /\ (~Present(last'.sid) => last'.history = <<>> /\ last'.count = 0)
       /\ session_storage' = session_storage
       /\ heap' = heap]_vars

C8_Witness ==
  /\ last.op = "get"
  /\ ~Present(last.sid)
  /\ last.count = 0
  /\ \E o \in Sessions \ {last.sid} : Len(History(o)) >= 2

\* a chat call the workflow engine failed
EngineFailed(r) ==
  calls[r].kind = "chat" /\ calls[r].pc = "done" /\ calls[r].fail = "engine"

\* nothing but chat call r touched r's session since r read it
Undisturbed(r) ==
  /\ session_storage[calls[r].sid] = calls[r].entry
  /\ calls[r].saw = {}
  /\ \A q \in ChatCallsOn(calls[r].sid) : q <= r

\* C9 as claimed: after the engine raises in a chat call on a session with an
\* entry, with no other request touching the session, the stored history has
\* odd length and ends in that call's user turn.
C9_FailedChatLeavesOddHistory ==
  \A r \in 1..Len(calls) :
    (EngineFailed(r) /\ calls[r].entry # NoList /\ Undisturbed(r)) =>
      LET h == History(calls[r].sid)
      IN /\ Len(h) % 2 = 1
         /\ h[Len(h)] = UserTurn(r, calls[r].msg)

\* C9 amended: the caller gets a 500; when the session had no entry none is
\* created; when it had one, the call's user turn stays in that list, right
\* after the turns the call found there, with no assistant turn of the call.
\* The history a later get returns is one turn longer than the call found
\* it and ends in that user turn if nothing else touched the session; its
\* length is odd only if the call found an even number of turns.
C9_FailedChatLeavesUserTurn ==
  \A r \in 1..Len(calls) :
    EngineFailed(r) =>
      /\ calls[r].status = 500
      /\ calls[r].entry = NoList =>
           \A sid \in Sessions : session_storage[sid] # calls[r].hist
      /\ calls[r].entry # NoList =>
           LET h == heap[calls[r].entry]
           IN /\ Len(h) >= calls[r].base + 1
              /\ h[calls[r].base + 1] = UserTurn(r, calls[r].msg)
              /\ \A i \in 1..Len(h) :
                   ~(h[i].call = r /\ h[i].role = "assistant")
              /\ Undisturbed(r) =>
                   /\ History(calls[r].sid) = h
                   /\ Len(h) = calls[r].base + 1
                   /\ (Len(h) % 2 = 1 <=> calls[r].base % 2 = 0)

C9_Witness ==
  \E r, q \in 1..Len(calls) :
    /\ EngineFailed(r) /\ calls[r].entry # NoList /\ Undisturbed(r)
    /\ Len(History(calls[r].sid)) = 3
    /\ EngineFailed(q) /\ calls[q].entry = NoList
    /\ ~Present(calls[q].sid)

====
